---- MODULE Spec2Model ----
(***************************************************************************)
(* Model of px4tools/ulog.py: the PX4MessageDict store (construction and   *)
(* as-of merge of topic tables) and the noise estimators' root selection.  *)
(***************************************************************************)
EXTENDS Integers, Sequences, FiniteSets, TLC

VARIABLES pc, raw, store, call, result, epc, data, op, args, out

storeVars == <<pc, raw, store, call, result>>
estVars == <<epc, data, op, args, out>>
vars == <<pc, raw, store, call, result, epc, data, op, args, out>>

(***************************************************************************)
(* Bounds of the explored inputs.                                          *)
(***************************************************************************)
MaxRows == 2
MaxTs == 3
MaxStep == 2
MaxRoots == 2
MaxRe == 6
MaxSamples == 3
MaxSpacing == 2

(***************************************************************************)
(* Floating point values: a finite number, NaN or +infinity.               *)
(***************************************************************************)
Num(n) == [k |-> "num", n |-> n]
NaN == [k |-> "nan", n |-> 0]
Inf == [k |-> "inf", n |-> 0]

isfinite(v) == v.k = "num"
isnull(v) == v.k = "nan"

\* Python's None and a present optional argument.
None == <<>>
Some(x) == <<x>>

Range(s) == {s[i] : i \in DOMAIN s}
MaxOf(S) == CHOOSE x \in S : \A y \in S : y <= x
MinOf(S) == CHOOSE x \in S : \A y \in S : x <= y

(***************************************************************************)
(* Tables (pandas DataFrame): column names, rows of values aligned with    *)
(* the columns, and the row index.                                         *)
(***************************************************************************)
Table(cols, rows, index) == [columns |-> cols, rows |-> rows, index |-> index]
NoTable == Table(<<>>, <<>>, <<>>)

ColIdx(df, c) == CHOOSE i \in DOMAIN df.columns : df.columns[i] = c
Cell(df, r, c) == df.rows[r][ColIdx(df, c)]
Column(df, c) == [r \in DOMAIN df.rows |-> Cell(df, r, c)]

\* Topic and column names of the explored logs, the topics in the order sorted() gives.
SortedTopicNames == <<"a", "a__f_b">>
TopicNames == Range(SortedTopicNames)
ColumnLists ==
    { <<"x", "timestamp">>, <<"timestamp", "b__f_x">>, <<"timestamp", "x", "y">> }

SortedTs(n) == {s \in [1..n -> 0..MaxTs] : \A i \in 1..n : \A j \in i..n : s[i] <= s[j]}

\* Tables with one data column and every choice of sorted timestamps and of
\* present (finite, distinct per row) or missing samples.
DataTables ==
    UNION { UNION { { Table(<<"timestamp", "x">>,
                             [i \in 1..n |-> << Num(tsq[i]),
                                  IF kind[i] = "num" THEN Num(i) ELSE NaN >>],
                             [i \in 1..n |-> i - 1])
                      : kind \in [1..n -> {"num", "nan"}] }
                    : tsq \in SortedTs(n) }
            : n \in 0..MaxRows }

\* One-row tables whose sample is infinite.
InfTables ==
    { Table(<<"timestamp", "x">>, << <<Num(t), Inf>> >>, <<0>>) : t \in 0..MaxTs }

\* One-row tables with every choice of column list.
NameTables ==
    { Table(cols,
            << [i \in DOMAIN cols |-> IF cols[i] = "timestamp" THEN Num(1) ELSE Num(i)] >>,
            <<0>>)
      : cols \in ColumnLists }

RawTables == DataTables \cup InfTables \cup NameTables

\* A dict: its keys in insertion order and the value of each key.
Dict(keys, tab) == [keys |-> keys, tab |-> tab]
KeyLists == {<<>>} \cup {<<t>> : t \in TopicNames}
              \cup {l \in TopicNames \X TopicNames : l[1] # l[2]}

(***************************************************************************)
(* PX4MessageDict.__init__                                                 *)
(***************************************************************************)
new_cols_unseparated(topic, columns) ==
    [col \in Range(columns) |->
        IF col = "timestamp" THEN col ELSE "t_" \o topic \o "_" \o col]
new_cols(topic, columns) ==
    [col \in Range(columns) |->
        IF col = "timestamp" THEN col ELSE "t_" \o topic \o "__f_" \o col]

rename(df, mapping) ==
    Table([i \in DOMAIN df.columns |-> mapping[df.columns[i]]], df.rows, df.index)

\* pd.TimedeltaIndex(df.timestamp*1e3, unit='ns')
TimedeltaIndexNs(df) == [r \in DOMAIN df.rows |-> Cell(df, r, "timestamp").n * 1000]

reindex(df) == Table(df.columns, df.rows, TimedeltaIndexNs(df))

PX4MessageDict_init(d) ==
    Dict(d.keys,
         [topic \in Range(d.keys) |->
             reindex(rename(d.tab[topic], new_cols(topic, d.tab[topic].columns)))])

(***************************************************************************)
(* PX4MessageDict.concat                                                   *)
(***************************************************************************)
Failure(status) == [status |-> status, table |-> NoTable]
Success(m) == [status |-> "ok", table |-> m]

\* sorted(self.keys())
sorted(keys) == SelectSeq(SortedTopicNames, LAMBDA t : t \in Range(keys))

\* Series.min() and Series.max() of the timestamp column: NaN for no rows.
ts_t_min(df) ==
    IF df.rows = <<>> THEN NaN
    ELSE Num(MinOf({Cell(df, r, "timestamp").n : r \in DOMAIN df.rows}))
ts_t_max(df) ==
    IF df.rows = <<>> THEN NaN
    ELSE Num(MaxOf({Cell(df, r, "timestamp").n : r \in DOMAIN df.rows}))

\* a < b on floats: False when either side is NaN.
less(a, b) == isfinite(a) /\ isfinite(b) /\ a.n < b.n

\* The loop over sorted(self.keys()) that accumulates ts_min and ts_max.
RECURSIVE ts_range(_, _, _, _)
ts_range(self, topics, ts_min, ts_max) ==
    IF topics = <<>> THEN [ts_min |-> ts_min, ts_max |-> ts_max]
    ELSE LET df == self.tab[Head(topics)]
             t_min == ts_t_min(df)
             t_max == ts_t_max(df)
         IN ts_range(self, Tail(topics),
                IF ts_min = None \/ less(t_min, ts_min[1]) THEN Some(t_min) ELSE ts_min,
                IF ts_max = None \/ less(ts_max[1], t_max) THEN Some(t_max) ELSE ts_max)

\* np.arange(start, stop, step, dtype=np.int64) for a whole, positive step.
arange_inclusive(start, stop, step) ==
    LET len == IF stop >= start THEN (stop - start) \div step + 1 ELSE 0
    IN [i \in 1..len |-> start + (i - 1) * step]
arange(start, stop, step) ==
    LET len == IF stop > start THEN (stop - start + step - 1) \div step ELSE 0
    IN [i \in 1..len |-> start + (i - 1) * step]

\* "define timestamps to merge on": dt is the step dt*1e6 in microseconds.
timestamps(self, on, dt) ==
    IF dt # None THEN
        LET r == ts_range(self, sorted(self.keys), None, None)
        IN IF r.ts_min = None THEN [status |-> "TypeError", ts |-> <<>>]
           ELSE IF ~isfinite(r.ts_min[1]) \/ ~isfinite(r.ts_max[1])
                THEN [status |-> "ValueError", ts |-> <<>>]
           ELSE [status |-> "ok",
                 ts |-> arange(r.ts_min[1].n, r.ts_max[1].n - dt[1], dt[1])]
    ELSE IF on # None THEN
        IF on[1] \notin Range(self.keys) THEN [status |-> "KeyError", ts |-> <<>>]
        ELSE [status |-> "ok",
              ts |-> [r \in DOMAIN self.tab[on[1]].rows |->
                         Cell(self.tab[on[1]], r, "timestamp").n]]
    ELSE [status |-> "IOError", ts |-> <<>>]

\* merge_asof's default direction='backward' with exact matches allowed: the last
\* row of right whose key is at or before t, 0 when there is none.
backward_match_first(right, rk, t) ==
    LET found == {i \in DOMAIN right.rows : right.rows[i][rk].n <= t}
    IN IF found = {} THEN 0 ELSE MinOf(found)
backward_match(right, rk, t) ==
    LET found == {i \in DOMAIN right.rows : right.rows[i][rk].n <= t}
    IN IF found = {} THEN 0 ELSE MaxOf(found)

\* pd.merge_asof(left, right, 'timestamp'): a left join on the as-of row;
\* overlapping column names get the suffixes _x and _y.
merge_asof(left, right) ==
    LET lk == ColIdx(left, "timestamp")
        rk == ColIdx(right, "timestamp")
        rpos == SelectSeq([i \in DOMAIN right.columns |-> i], LAMBDA i : i # rk)
        overlap == (Range(left.columns) \cap Range(right.columns)) \ {"timestamp"}
        lcols == [i \in DOMAIN left.columns |->
                    IF left.columns[i] \in overlap
                    THEN left.columns[i] \o "_x" ELSE left.columns[i]]
        rcols == [j \in DOMAIN rpos |->
                    IF right.columns[rpos[j]] \in overlap
                    THEN right.columns[rpos[j]] \o "_y" ELSE right.columns[rpos[j]]]
        rrow(r) == LET i == backward_match(right, rk, left.rows[r][lk].n)
                   IN [j \in DOMAIN rpos |-> IF i = 0 THEN NaN ELSE right.rows[i][rpos[j]]]
    IN Table(lcols \o rcols,
             [r \in DOMAIN left.rows |-> left.rows[r] \o rrow(r)],
             [r \in DOMAIN left.rows |-> r - 1])

\* The loop "for topic in topics: m = pd.merge_asof(m, self[topic], 'timestamp')".
RECURSIVE merge_topics(_, _, _)
merge_topics(self, topics, m) ==
    IF topics = <<>> THEN Success(m)
    ELSE IF Head(topics) \notin Range(self.keys) THEN Failure("KeyError")
    ELSE merge_topics(self, Tail(topics), merge_asof(m, self.tab[Head(topics)]))

\* DataFrame.ffill / DataFrame.bfill: a null cell takes the nearest non-null cell
\* of its column above / below it.
ffill(m) ==
    Table(m.columns,
          [r \in DOMAIN m.rows |-> [c \in DOMAIN m.columns |->
              LET above == {q \in 1..r : ~isnull(m.rows[q][c])}
              IN IF above = {} THEN m.rows[r][c] ELSE m.rows[MaxOf(above)][c]]],
          m.index)
bfill(m) ==
    Table(m.columns,
          [r \in DOMAIN m.rows |-> [c \in DOMAIN m.columns |->
              LET below == {q \in r..Len(m.rows) : ~isnull(m.rows[q][c])}
              IN IF below = {} THEN m.rows[r][c] ELSE m.rows[MinOf(below)][c]]],
          m.index)

\* m.ffill(); m.bfill(); m.pad()
fill_nans(m) == ffill(bfill(ffill(m)))

\* np.all(np.isfinite(m))
all_finite(m) == \A r \in DOMAIN m.rows : \A c \in DOMAIN m.columns : isfinite(m.rows[r][c])

\* assert(np.all(np.isfinite(m))); return m
assert_finite_skipped(m) == Success(m)
assert_finite(m) == IF all_finite(m) THEN Success(m) ELSE Failure("AssertionError")

\* "if topics is None: topics = self.keys()": the order the merge loop visits.
merge_order_sorted(self, topics) == sorted(IF topics = None THEN self.keys ELSE topics[1])
merge_order(self, topics) == IF topics = None THEN self.keys ELSE topics[1]

\* The table before the final fill: the timeline joined with every topic, reindexed.
joined(self, topics, ts) ==
    LET m0 == Table(<<"timestamp">>, [r \in DOMAIN ts |-> <<Num(ts[r])>>],
                    [r \in DOMAIN ts |-> r - 1])
        j == merge_topics(self, merge_order(self, topics), m0)
    IN IF j.status # "ok" THEN j ELSE Success(reindex(j.table))

concat(self, topics, on, dt) ==
    LET t == timestamps(self, on, dt)
    IN IF t.status # "ok" THEN Failure(t.status)
       ELSE LET j == joined(self, topics, t.ts)
            IN IF j.status # "ok" THEN j ELSE assert_finite(fill_nans(j.table))

(***************************************************************************)
(* The store's life: construction from the decoder's tables, then merges.  *)
(***************************************************************************)
TopicLists == {<<t>> : t \in TopicNames}
                \cup {l \in TopicNames \X TopicNames : l[1] # l[2]}
Steps == 1..MaxStep

NoCall == [topics |-> None, on |-> None, dt |-> None]

StoreInit ==
    /\ pc = "new"
    /\ raw = Dict(<<>>, <<>>)
    /\ store = Dict(<<>>, <<>>)
    /\ call = NoCall
    /\ result = Failure("none")

Construct(d) ==
    /\ pc = "new"
    /\ raw' = d
    /\ store' = PX4MessageDict_init(d)
    /\ pc' = "ready"
    /\ UNCHANGED <<call, result>>
    /\ UNCHANGED estVars

Concat(topics, on, dt) ==
    /\ pc = "ready"
    /\ call' = [topics |-> topics, on |-> on, dt |-> dt]
    /\ result' = concat(store, topics, on, dt)
    /\ pc' = "merged"
    /\ UNCHANGED <<raw, store>>
    /\ UNCHANGED estVars

StoreNext ==
    \/ /\ pc = "new"
       /\ \E keys \in KeyLists : \E tab \in [Range(keys) -> RawTables] :
             Construct(Dict(keys, tab))
    \/ /\ pc = "ready"
       /\ \E topics \in {None} \cup {Some(l) : l \in TopicLists},
             on \in {None} \cup {Some(t) : t \in TopicNames},
             dt \in {None} \cup {Some(s) : s \in Steps} : Concat(topics, on, dt)

(***************************************************************************)
(* _smallest_positive_real_root                                            *)
(***************************************************************************)
DefaultMinVal == 0
DefaultMaxVal == 1000000

\* roots is a sequence of complex numbers [re, im]; min_val, max_val are floats.
smallest_positive_real_root(roots, min_val, max_val) ==
    LET posreal == {roots[i].re : i \in {q \in DOMAIN roots :
                        roots[q].im = 0 /\ less(min_val, Num(roots[q].re))}}
        res == IF Len(roots) > 0 /\ posreal # {} THEN Num(MinOf(posreal)) ELSE Num(0)
    IN IF ~isfinite(res) \/ less(res, min_val) \/ less(max_val, res) THEN NaN ELSE res

(***************************************************************************)
(* The estimators.  A series has an index (float64 seconds, or timedelta64 *)
(* time deltas) and values.  The least-squares fit is numpy's: the model   *)
(* takes its outcome as an input of the call.                              *)
(***************************************************************************)
\* Time deltas are held in milliseconds.
MsPerSecond == 1000

Series(kind, index, values) == [kind |-> kind, index |-> index, values |-> values]

\* pd.TimedeltaIndex(data.index, unit='s'), assigned to data.index.
TimedeltaIndexS(s) ==
    IF s.kind = "timedelta64" THEN s
    ELSE Series("timedelta64", [i \in DOMAIN s.index |-> s.index[i] * MsPerSecond], s.values)

\* tau = 10**log_tau, a positive finite number unless log_tau is NaN.
Pow10(log_tau) == IF isfinite(log_tau) THEN [k |-> "pow10", n |-> log_tau.n] ELSE NaN
positive_finite(tau) == tau.k = "pow10"

\* A noise coefficient evaluated from the fit at log_tau.
Sig(log_tau) == [k |-> "sig", n |-> log_tau.n]

\* Roots of the derivative of the order-2 fit shifted by shift/2: the derivative
\* is pdiff(x) = (x - z) / (2 w), with w # 0 the signed distance between its
\* crossings of 0 and of 1/2.
shifted_roots(z, w, shift) == << [re |-> z - shift * w, im |-> 0] >>

SearchMin == 0
SearchMax == 5

plot_allan_std_dev(z, w) ==
    LET log_tau_0 == smallest_positive_real_root(shifted_roots(z, w, 1),
                                                 Num(SearchMin), Num(SearchMax))
        tau_0 == Pow10(log_tau_0)
        log_tau_1 == smallest_positive_real_root(shifted_roots(z, w, 0),
                                                 log_tau_0, Num(SearchMax))
        tau_1 == Pow10(log_tau_1)
        log_tau_2 == smallest_positive_real_root(shifted_roots(z, w, -1),
                                                 log_tau_1, Num(SearchMax))
        tau_2 == Pow10(log_tau_2)
    IN [res |-> NaN,
        sig_rw |-> IF positive_finite(tau_0) THEN Sig(log_tau_0) ELSE NaN,
        sig_bi |-> IF positive_finite(tau_1) THEN Sig(log_tau_1) ELSE NaN,
        sig_rrw |-> IF positive_finite(tau_2) THEN Sig(log_tau_2) ELSE NaN,
        tau_0 |-> tau_0, tau_1 |-> tau_1, tau_2 |-> tau_2]

\* roots: the roots of the normalised fit minus 1/e.
plot_autocorrelation(roots) ==
    smallest_positive_real_root(roots, Num(DefaultMinVal), Num(DefaultMaxVal))

Complex == [re : -1..MaxRe, im : {0, 1}]
RootSeqs == UNION { [1..n -> Complex] : n \in 0..MaxRoots }
MinVals == {NaN, Num(0), Num(2)}
MaxVals == {Num(SearchMax), Num(DefaultMaxVal)}
Widths == {-2, -1, 1, 2}

SeriesSet ==
    { Series(kind,
             [i \in 1..n |-> (i - 1) * d * (IF kind = "timedelta64" THEN MsPerSecond ELSE 1)],
             [i \in 1..n |-> Num(i)])
      : kind \in {"float64", "timedelta64"}, n \in 2..MaxSamples, d \in 1..MaxSpacing }

NoArgs == [roots |-> <<>>, min_val |-> NaN, max_val |-> NaN, z |-> 0, w |-> 0]
NoOut == [res |-> NaN, sig_rw |-> NaN, sig_bi |-> NaN, sig_rrw |-> NaN,
          tau_0 |-> NaN, tau_1 |-> NaN, tau_2 |-> NaN]
RootOut(v) == [NoOut EXCEPT !.res = v]

EstIdle ==
    /\ epc = "idle"
    /\ op = "none"
    /\ args = NoArgs
    /\ out = NoOut

CallRootFinder(roots, min_val, max_val) ==
    /\ epc = "idle"
    /\ op' = "root"
    /\ args' = [NoArgs EXCEPT !.roots = roots, !.min_val = min_val, !.max_val = max_val]
    /\ out' = RootOut(smallest_positive_real_root(roots, min_val, max_val))
    /\ epc' = "returned"
    /\ UNCHANGED data
    /\ UNCHANGED storeVars

CallAllan(z, w) ==
    /\ epc = "idle"
    /\ data' = TimedeltaIndexS(data)
    /\ op' = "allan"
    /\ args' = [NoArgs EXCEPT !.z = z, !.w = w]
    /\ out' = plot_allan_std_dev(z, w)
    /\ epc' = "returned"
    /\ UNCHANGED storeVars

CallAutocorrelation(roots) ==
    /\ epc = "idle"
    /\ data' = TimedeltaIndexS(data)
    /\ op' = "autocorr"
    /\ args' = [NoArgs EXCEPT !.roots = roots]
    /\ out' = RootOut(plot_autocorrelation(roots))
    /\ epc' = "returned"
    /\ UNCHANGED storeVars

\* The caller takes the returned value; the series stays with the caller.
Return ==
    /\ epc = "returned"
    /\ epc' = "idle"
    /\ op' = "none"
    /\ args' = NoArgs
    /\ out' = NoOut
    /\ UNCHANGED data
    /\ UNCHANGED storeVars

EstNext ==
    \/ /\ epc = "idle"
       /\ \E roots \in RootSeqs, min_val \in MinVals, max_val \in MaxVals :
             CallRootFinder(roots, min_val, max_val)
    \/ /\ epc = "idle"
       /\ \E z \in -1..MaxRe, w \in Widths : CallAllan(z, w)
    \/ /\ epc = "idle"
       /\ \E roots \in RootSeqs : CallAutocorrelation(roots)
    \/ Return

(***************************************************************************)
(* Specifications: the store's life, and the estimators' calls on a series.*)
(***************************************************************************)
Init == StoreInit /\ EstIdle /\ data = Series("timedelta64", <<0, MsPerSecond>>, <<Num(1), Num(2)>>)
Spec == Init /\ [][StoreNext]_vars

EstInit == StoreInit /\ EstIdle /\ data \in SeriesSet
EstSpec == EstInit /\ [][EstNext]_vars

(***************************************************************************)
(* Vocabulary of the properties of Merge: what the last call was asked and *)
(* what it returned, read off the store, the call and the result.          *)
(***************************************************************************)
Merged == pc = "merged"
Returned == pc = "merged" /\ result.status = "ok"

SelectedTopics == IF call.topics = None THEN store.keys ELSE call.topics[1]
Timeline == [r \in DOMAIN result.table.rows |-> result.table.rows[r][1].n]

DataCols(df) ==
    SelectSeq([i \in DOMAIN df.columns |-> i], LAMBDA i : df.columns[i] # "timestamp")
TsOf(df, i) == df.rows[i][ColIdx(df, "timestamp")].n
AllTs(topics) == UNION { {TsOf(store.tab[t], i) : i \in DOMAIN store.tab[t].rows} : t \in topics }

\* The result column holding the k-th data column of the p-th selected topic.
RECURSIVE ColsBefore(_)
ColsBefore(p) ==
    IF p = 1 THEN 1 ELSE ColsBefore(p - 1) + Len(DataCols(store.tab[SelectedTopics[p - 1]]))
ResultCell(r, p, k) == result.table.rows[r][ColsBefore(p) + k]

\* The sample of column c in the most recent row of df at or before t (NaN: no such row).
RowsAtOrBefore(df, t) == {i \in DOMAIN df.rows : TsOf(df, i) <= t}
AsOfSample(df, c, t) ==
    IF RowsAtOrBefore(df, t) = {} THEN NaN ELSE df.rows[MaxOf(RowsAtOrBefore(df, t))][c]
Present(v) == v.k # "nan"

\* C1 (as claimed): a call with neither or both of `on` and `dt` ends in an error
\* and returns no table.
C1_ExactlyOneOfOnAndDt ==
    /\ (Merged /\ ((call.on = None) <=> (call.dt = None)))
          => (result.status # "ok" /\ result.table = NoTable)
    /\ (Merged /\ call.on = None /\ call.dt = None) => result.status = "IOError"

\* C2: every returned table holds only finite values, and a merge whose filled
\* table still holds a missing or non-finite value aborts without a table.
C2_MergeCompleteness ==
    /\ Returned =>
          \A r \in DOMAIN result.table.rows : \A c \in DOMAIN result.table.columns :
              result.table.rows[r][c].k = "num"
    /\ Merged =>
          LET t == timestamps(store, call.on, call.dt)
              j == joined(store, call.topics, t.ts)
          IN (/\ t.status = "ok"
              /\ j.status = "ok"
              /\ \E r \in DOMAIN j.table.rows : \E c \in DOMAIN j.table.columns :
                    fill_nans(j.table).rows[r][c].k # "num")
             => (result.status = "AssertionError" /\ result.table = NoTable)

\* C2 witness: a table was returned although the join left a gap, which the fill closed.
C2_Witness ==
    /\ Returned
    /\ \E p \in DOMAIN SelectedTopics : \E r \in DOMAIN Timeline :
          LET df == store.tab[SelectedTopics[p]]
          IN DataCols(df) # <<>> /\ ~Present(AsOfSample(df, DataCols(df)[1], Timeline[r]))

\* C3 (as claimed): every cell is the sample of the most recent row at or before the
\* timeline timestamp, and only without such a row the sample the first later
\* timeline row finds; with `on` the result has one row per row of that topic.
C3_LastKnownValue ==
    Returned =>
      /\ (call.dt = None => Len(result.table.rows) = Len(store.tab[call.on[1]].rows))
      /\ \A p \in DOMAIN SelectedTopics : \A r \in DOMAIN Timeline :
           LET df == store.tab[SelectedTopics[p]]
               later == {q \in r..Len(Timeline) : RowsAtOrBefore(df, Timeline[q]) # {}}
           IN \A k \in DOMAIN DataCols(df) :
                ResultCell(r, p, k) =
                    IF RowsAtOrBefore(df, Timeline[r]) # {}
                    THEN AsOfSample(df, DataCols(df)[k], Timeline[r])
                    ELSE IF later = {} THEN NaN
                    ELSE AsOfSample(df, DataCols(df)[k], Timeline[MinOf(later)])

\* C3 (amended): a cell is the sample of the most recent row at or before the timeline
\* timestamp when that sample is present; otherwise (no such row, or a NaN sample) it
\* is the nearest earlier timeline row's present as-of sample, and only without one
\* the first later timeline row's. With `on` the result has one row per row of it.
C3_LastKnownPresentValue ==
    Returned =>
      /\ (call.dt = None => Len(result.table.rows) = Len(store.tab[call.on[1]].rows))
      /\ \A p \in DOMAIN SelectedTopics : \A r \in DOMAIN Timeline :
           LET df == store.tab[SelectedTopics[p]]
           IN \A k \in DOMAIN DataCols(df) :
                LET sample(q) == AsOfSample(df, DataCols(df)[k], Timeline[q])
                    earlier == {q \in 1..r : Present(sample(q))}
                    later == {q \in r..Len(Timeline) : Present(sample(q))}
                IN /\ earlier # {} => ResultCell(r, p, k) = sample(MaxOf(earlier))
                   /\ earlier = {} => later # {} /\ ResultCell(r, p, k) = sample(MinOf(later))

\* C3 witness: a merge on a reference topic returned a table in which another topic
\* has a leading gap (back-filled) and a later row carrying a strictly older sample.
C3_Witness ==
    /\ Returned
    /\ call.dt = None
    /\ \E p \in DOMAIN SelectedTopics : \E r1, r2 \in DOMAIN Timeline :
          LET df == store.tab[SelectedTopics[p]]
          IN /\ SelectedTopics[p] # call.on[1]
             /\ DataCols(df) # <<>>
             /\ r1 < r2
             /\ RowsAtOrBefore(df, Timeline[r1]) = {}
             /\ RowsAtOrBefore(df, Timeline[r2]) # {}
             /\ \A i \in DOMAIN df.rows : TsOf(df, i) # Timeline[r2]
             /\ Len(df.rows) = 2
             /\ Present(df.rows[1][DataCols(df)[1]])
             /\ Present(df.rows[2][DataCols(df)[1]])

\* C4 (as claimed): with a fixed step the timeline starts at the minimum timestamp of
\* the topics being merged, advances by the step and ends at the largest such value
\* not exceeding their maximum timestamp minus the step.
C4_FixedStepTimelineOverSelected ==
    (Returned /\ call.dt # None /\ AllTs(Range(SelectedTopics)) # {}) =>
        LET lo == MinOf(AllTs(Range(SelectedTopics)))
            hi == MaxOf(AllTs(Range(SelectedTopics)))
            step == call.dt[1]
        IN /\ \A i \in DOMAIN Timeline :
                Timeline[i] = lo + (i - 1) * step /\ Timeline[i] <= hi - step
           /\ lo + Len(Timeline) * step > hi - step

\* C4 (amended): with a fixed step of whole microseconds the timeline starts at the
\* minimum timestamp over all topics of the store (selected or not), advances by the
\* step and ends at the largest such value strictly below the store's maximum
\* timestamp minus the step (it is empty when there is none).
C4_FixedStepTimelineOverStore ==
    (Returned /\ call.dt # None) =>
        /\ AllTs(Range(store.keys)) # {}
        /\ LET lo == MinOf(AllTs(Range(store.keys)))
               hi == MaxOf(AllTs(Range(store.keys)))
               step == call.dt[1]
           IN /\ \A i \in DOMAIN Timeline :
                   Timeline[i] = lo + (i - 1) * step /\ Timeline[i] < hi - step
              /\ lo + Len(Timeline) * step >= hi - step

\* C4 witness: a fixed-step merge of a proper subset of the topics returned a
\* timeline of at least two entries.
C4_Witness ==
    /\ Returned
    /\ call.dt # None
    /\ call.topics # None
    /\ Range(SelectedTopics) # Range(store.keys)
    /\ Len(Timeline) >= 2

\* C5: Construct keeps `timestamp`, renames every other column c of a topic to
\* t_<topic>__f_<c>, keeps rows and values, and indexes each row by timestamp * 1000.
C5_ConstructRenamesAndReindexes ==
    pc # "new" =>
      /\ store.keys = raw.keys
      /\ \A topic \in Range(raw.keys) :
           LET r == raw.tab[topic]
               df == store.tab[topic]
           IN /\ DOMAIN df.columns = DOMAIN r.columns
              /\ \A i \in DOMAIN r.columns :
                    df.columns[i] = IF r.columns[i] = "timestamp" THEN "timestamp"
                                    ELSE "t_" \o topic \o "__f_" \o r.columns[i]
              /\ df.rows = r.rows
              /\ DOMAIN df.index = DOMAIN r.rows
              /\ \A i \in DOMAIN r.rows : df.index[i] = TsOf(r, i) * 1000

\* C5 witness: a constructed store holds a two-row table with a renamed column and
\* a table whose timestamp column is not the first.
C5_Witness ==
    /\ pc = "ready"
    /\ \E topic \in Range(store.keys) :
          /\ Len(store.tab[topic].rows) = 2
          /\ store.tab[topic].index[2] >= 1000
          /\ store.tab[topic].columns = <<"timestamp", "t_" \o topic \o "__f_x">>
    /\ \E topic \in Range(store.keys) : store.tab[topic].columns[1] # "timestamp"

\* C6 (as claimed): after Construct no non-timestamp column name occurs in two
\* tables of the store.
C6_GloballyUniqueColumns ==
    pc # "new" =>
      \A t, u \in Range(store.keys) :
          t # u => (Range(store.tab[t].columns) \cap Range(store.tab[u].columns))
                       \subseteq {"timestamp"}

(***************************************************************************)
(* Vocabulary of the properties of the estimators.                         *)
(***************************************************************************)
RootReturned == epc = "returned" /\ op = "root"
RealRootsAbove(roots, lo) == {roots[i].re : i \in {q \in DOMAIN roots :
                                 roots[q].im = 0 /\ roots[q].re > lo}}

\* C7 (as claimed): a defined result v is a real root with min < v <= max and no
\* other real root lies strictly between min and v.
C7_LeastRealRootAboveMin ==
    (RootReturned /\ isfinite(args.min_val) /\ isfinite(out.res)) =>
        /\ out.res.n \in RealRootsAbove(args.roots, args.min_val.n)
        /\ out.res.n <= args.max_val.n
        /\ \A r \in RealRootsAbove(args.roots, args.min_val.n) : out.res.n <= r

\* C8 (as claimed): without a real root above min the root finder returns NaN, and
\* the autocorrelation estimator returns NaN without a real crossing above lag 0.
C8_UndefinedWithoutRealRootAboveMin ==
    /\ (RootReturned /\ isfinite(args.min_val)
           /\ RealRootsAbove(args.roots, args.min_val.n) = {}) => out.res = NaN
    /\ (epc = "returned" /\ op = "autocorr"
           /\ RealRootsAbove(args.roots, 0) = {}) => out.res = NaN

\* C9 (as claimed): a stage whose shifted derivative has no real root in its search
\* window (from the previous stage's found log-tau, or 0, up to 5) returns NaN for
\* both its tau and its coefficient.
C9_StageUndefinedWithoutRootInWindow ==
    (epc = "returned" /\ op = "allan") =>
        LET lo_1 == IF out.tau_0 = NaN THEN 0 ELSE out.tau_0.n
            lo_2 == IF out.tau_1 = NaN THEN 0 ELSE out.tau_1.n
            outside(r, lo) == r < lo \/ r > 5
        IN /\ outside(args.z - args.w, 0) => (out.tau_0 = NaN /\ out.sig_rw = NaN)
           /\ outside(args.z, lo_1) => (out.tau_1 = NaN /\ out.sig_bi = NaN)
           /\ outside(args.z + args.w, lo_2) => (out.tau_2 = NaN /\ out.sig_rrw = NaN)

\* C10 (as claimed): no estimator call changes the series it is given.
C10_InputSeriesUnchanged == [][data' = data]_vars

(***************************************************************************)
(* Column order of the merged table.                                       *)
(***************************************************************************)
DataNames(df) == [k \in DOMAIN DataCols(df) |-> df.columns[DataCols(df)[k]]]

\* The data column names of the topics, topic after topic in the given order.
RECURSIVE NamesInOrder(_)
NamesInOrder(topics) ==
    IF topics = <<>> THEN <<>>
    ELSE DataNames(store.tab[Head(topics)]) \o NamesInOrder(Tail(topics))

\* The columns are `timestamp` and then the named ones, a name shared by two
\* topics carrying the join's suffix _x or _y.
ColumnsAre(columns, names) ==
    /\ Len(columns) = 1 + Len(names)
    /\ columns[1] = "timestamp"
    /\ \A i \in DOMAIN names :
          columns[i + 1] \in {names[i], names[i] \o "_x", names[i] \o "_y"}

\* C11 (as claimed): the topics are joined in lexicographic order of their names,
\* so the columns of the returned table follow that order however the topics were
\* supplied or inserted.
C11_ColumnsInLexicographicOrder ==
    Returned => ColumnsAre(result.table.columns, NamesInOrder(sorted(SelectedTopics)))

\* C11 (amended): the topics are joined in the order they were supplied to Merge
\* (the store's key insertion order when no subset is given), so the columns of the
\* returned table are `timestamp` and then each topic's data columns in that order.
C11_ColumnsInSuppliedOrder ==
    Returned => ColumnsAre(result.table.columns, NamesInOrder(SelectedTopics))

\* C11 witness: a merge of two topics with data columns, visited in an order that
\* is not the lexicographic one, returned a table.
C11_Witness ==
    /\ Returned
    /\ Len(SelectedTopics) = 2
    /\ SelectedTopics # sorted(SelectedTopics)
    /\ \A p \in DOMAIN SelectedTopics : DataCols(store.tab[SelectedTopics[p]]) # <<>>
    /\ Len(result.table.rows) >= 1
    /\ result.table.columns[2] = "t_a__f_b__f_x"

(***************************************************************************)
(* The chain of the three Allan root searches.  The fit's derivative       *)
(* crosses -1/2 at z - w, 0 at z and +1/2 at z + w.                         *)
(***************************************************************************)
AllanReturned == epc = "returned" /\ op = "allan"
InSearchWindow(r, lo) == lo < r /\ r <= 5
Defined(tau) == tau # NaN

\* C12 (as claimed): the tau_1 search is bounded below by the found log-tau_0, and
\* by 0 when the tau_0 search failed, and likewise the tau_2 search by log-tau_1 or
\* 0: a stage after a failed one still returns its own root in (0, 5] when it has one.
C12_LowerBoundIsPreviousOrZero ==
    AllanReturned =>
        LET lo_1 == IF Defined(out.tau_0) THEN out.tau_0.n ELSE 0
            lo_2 == IF Defined(out.tau_1) THEN out.tau_1.n ELSE 0
        IN /\ InSearchWindow(args.z, lo_1) => out.tau_1 = Pow10(Num(args.z))
           /\ InSearchWindow(args.z + args.w, lo_2) => out.tau_2 = Pow10(Num(args.z + args.w))

\* C13 (as claimed): the taus returned as defined are in non-decreasing order, tau_0
\* against tau_2 included when tau_1 is undefined.
C13_DefinedTausNonDecreasing ==
    AllanReturned =>
        /\ (Defined(out.tau_0) /\ Defined(out.tau_1)) => out.tau_0.n <= out.tau_1.n
        /\ (Defined(out.tau_1) /\ Defined(out.tau_2)) => out.tau_1.n <= out.tau_2.n
        /\ (Defined(out.tau_0) /\ Defined(out.tau_2)) => out.tau_0.n <= out.tau_2.n

====
